---- MODULE Spec2Model ----
(***************************************************************************)
(* The monaco-editor knockout binding handler                              *)
(* (src/monacoEditorBindingHandler.ts): the editor store                   *)
(* MonacoEditorStore (create, get, hasEditors, resizeAll, updateEditor,    *)
(* the dispose callback) and the binding handler MonacoBindingHandlerHelper*)
(* (init, update), together with the three collaborators the code talks    *)
(* to: the knockout observables, the AMD loader's ready callback and the   *)
(* editor widgets.                                                         *)
(*                                                                         *)
(* JavaScript runs every handler to completion on one thread.  A handler   *)
(* that re-enters the code through a collaborator (setValue fires the      *)
(* content-change listener, writing an observable makes knockout call      *)
(* update) is modelled by pushing the re-entered handler on callStack;     *)
(* the handlers on callStack run depth first.  Under them lies the frame   *)
(* of the outside event that started the turn; when only that frame is     *)
(* left the event's handler has returned, and when it is popped the turn   *)
(* is over and the next outside event can be taken.                        *)
(***************************************************************************)
EXTENDS Integers, Sequences, FiniteSets, TLC

NumElements == 2

\* the bound DOM elements, and "no element"
Elements == 1..NumElements
NoElement == 0

\* the texts the view model and the user put into play
Texts == {"hello", "// edited"}

\* the view-model properties a koMonacoEditor binding names: an observable,
\* and a read-only computed (ko.isWriteableObservable is false for it)
Props == {"mainEditorText", "readOnlyText"}

\* src/monacoEditorBindingHandler.ts:39
editorDomElementIdPrefix == "knockout-monaco-"

\* JavaScript's null, as an argument of get and updateEditor
Null == "<null>"

\* the ids elements carry in the page before create: none (''), an id of the
\* page author's, and an id of the page author's that has the generated shape
DomIds == {"", "editorA", editorDomElementIdPrefix \o "1"}

\* a member every object literal {} inherits from Object.prototype
InheritedKeys == {"constructor"}

\* the keys the store's map is looked up with: the ids elements can carry,
\* an id no element carries, and an inherited member's name
StoreKeys == ((DomIds \ {""}) \cup {"nobody"} \cup InheritedKeys
              \cup {editorDomElementIdPrefix \o ToString(n) : n \in 1..NumElements})


\* the position updateEditor passes to setPosition
DocumentStart == [lineNumber |-> 0, column |-> 0]

\* option values are written as JavaScript writes them; a field that is not
\* set reads as undefined
Undefined == "undefined"

\* the values JavaScript takes for false in if ( !options.x )
Falsy == {"undefined", "null", "false", "0", "''"}

\* the defaults parseOptions fills in, field by field
OptionDefaults ==
    [language |-> "'javascript'",
     theme |-> "'vs-dark'",
     lineNumbers |-> "'on'",
     roundedSelection |-> "true",
     scrollBeyondLastLine |-> "true",
     readOnly |-> "false",
     fontSize |-> "20",
     autoIndent |-> "true",
     emptySelectionClipboard |-> "true",
     folding |-> "true",
     glyphMargin |-> "true",
     mouseWheelZoom |-> "true",
     parameterHints |-> "true",
     renderIndentGuides |-> "true",
     minimap |-> "{ enabled: true, showSlider: 'mouseover' }"]

OptionFields == DOMAIN OptionDefaults

\* a value of each field other than its default, as a page would give it
OtherOptionValues ==
    [language |-> "'typescript'",
     theme |-> "'vs'",
     lineNumbers |-> "'off'",
     roundedSelection |-> "true",
     scrollBeyondLastLine |-> "true",
     readOnly |-> "true",
     fontSize |-> "12",
     autoIndent |-> "true",
     emptySelectionClipboard |-> "true",
     folding |-> "true",
     glyphMargin |-> "true",
     mouseWheelZoom |-> "true",
     parameterHints |-> "true",
     renderIndentGuides |-> "true",
     minimap |-> "{ enabled: false, showSlider: 'mouseover' }"]

\* the values a page sets a field to: an explicit false, an explicit 0, the
\* default itself, and another value
SuppliedValues(f) == {"false", "0", OptionDefaults[f], OtherOptionValues[f]}

\* the object literal {}
EmptyOptions == [f \in OptionFields |-> Undefined]

\* the most fields an option literal sets
MaxSuppliedOptions == 2

\* the option literals with at most MaxSuppliedOptions fields set
OptionLiterals ==
    UNION {
        {[f \in OptionFields |-> IF f \in S THEN a[f] ELSE Undefined] :
            a \in {x \in [S -> UNION {SuppliedValues(f) : f \in S}] :
                      \A f \in S : x[f] \in SuppliedValues(f)}} :
        S \in {T \in SUBSET OptionFields : Cardinality(T) <= MaxSuppliedOptions}}

\* what a binding declaration says about meOptions: no such binding; a
\* binding whose value is undefined or null; a binding with an option literal
NoBinding == [has |-> FALSE, given |-> FALSE, fields |-> EmptyOptions]

NoLiteral == [has |-> TRUE, given |-> FALSE, fields |-> EmptyOptions]

Literal(o) == [has |-> TRUE, given |-> TRUE, fields |-> o]

\* the meOptions binding the page declares on element e, when it declares one
PageOptions(e) ==
    CASE e % 3 = 1 -> Literal(EmptyOptions)
      [] e % 3 = 2 -> Literal([EmptyOptions EXCEPT !["language"] = "'typescript'",
                                                   !["fontSize"] = "0"])
      [] OTHER -> NoLiteral

VARIABLES
    elementId,          \* element.id
    boundProp,          \* the view-model property the element's binding names
    meOptions,          \* the meOptions binding of the element's declaration
    inDocument,         \* the element has not been removed from the document
    applied,            \* knockout has applied the element's bindings (init ran)
    subscribed,         \* knockout re-runs update for the element on a change
    koValue,            \* the current value of each view-model property
    requireQueue,       \* the load-ready callbacks not yet fired, in request order
    editor,             \* the widget created for each element
    disposeCallback,    \* the element has a node-disposal callback not yet run
    nextStoreEntryId,   \* MonacoEditorStore._nextStoreEntryId
    monacoEditorInstances, \* MonacoEditorStore._monacoEditorInstances
    callStack,          \* the handlers re-entered and not yet run, and the turn's frame
    setValueCalls,      \* setValue calls in the current turn
    setPositionCalls,   \* the setPosition calls of the current turn
    observableWrites,   \* observable writes by listeners in the current turn
    result              \* what the call made in the current turn gave

vars == <<elementId, boundProp, meOptions, inDocument, applied, subscribed, koValue,
          requireQueue, editor, disposeCallback, nextStoreEntryId,
          monacoEditorInstances, callStack, setValueCalls, setPositionCalls,
          observableWrites, result>>

NoEditor == [created |-> FALSE, value |-> "", disposed |-> FALSE,
             options |-> EmptyOptions, koModelProp |-> ""]

NoResult == [op |-> "none", id |-> "", value |-> "", kind |-> "void",
             handle |-> NoElement, changed |-> FALSE,
             laidOut |-> [w \in Elements |-> 0]]

\* a widget after dispose(): its model is detached, it holds no text any more
DisposedEditor == [created |-> TRUE, value |-> "", disposed |-> TRUE,
                   options |-> EmptyOptions, koModelProp |-> ""]

\* ko.isWriteableObservable
isWriteableObservable(p) == p = "mainEditorText"

Init ==
    /\ elementId \in [Elements -> DomIds]
    /\ \A e1, e2 \in Elements :
          (e1 # e2 /\ elementId[e1] # "") => elementId[e1] # elementId[e2]
    /\ boundProp \in [Elements -> Props]
    \* the page declares every element with a meOptions binding, or all but one
    /\ \E u \in Elements \cup {NoElement} :
          /\ meOptions = [e \in Elements |->
                             IF e = u THEN NoBinding ELSE PageOptions(e)]
          \* init throws for that one whatever its id and its property are
          /\ u \in Elements =>
                elementId[u] = "" /\ boundProp[u] = "mainEditorText"
    /\ inDocument = [e \in Elements |-> TRUE]
    /\ applied = [e \in Elements |-> FALSE]
    /\ subscribed = [e \in Elements |-> FALSE]
    /\ koValue \in [Props -> Texts]
    \* a property no binding names plays no part
    /\ \A p \in Props :
          (\A e \in Elements : boundProp[e] = p => ~meOptions[e].has)
              => koValue[p] = "hello"
    /\ requireQueue = <<>>
    /\ editor = [e \in Elements |-> NoEditor]
    /\ disposeCallback = [e \in Elements |-> FALSE]
    /\ nextStoreEntryId = 0
    /\ monacoEditorInstances = [k \in StoreKeys |-> NoElement]
    /\ callStack = <<>>
    /\ setValueCalls = 0
    /\ setPositionCalls = {}
    /\ observableWrites = 0
    /\ result = NoResult

----------------------------------------------------------------------------
\* MonacoEditorStore

\* this._monacoEditorInstances.hasOwnProperty( id ): the map holds, under
\* each key, the element whose widget is stored there, or NoElement when the
\* object has no such own property
hasOwnProperty(id) ==
    id \in DOMAIN monacoEditorInstances /\ monacoEditorInstances[id] # NoElement

\* the own keys, as for ( var id in this._monacoEditorInstances ) visits them
OwnKeys == {id \in DOMAIN monacoEditorInstances : hasOwnProperty(id)}

\* getNextId: the counter after the increment, and the id made from it
getNextId ==
    [counter |-> nextStoreEntryId + 1,
     id |-> editorDomElementIdPrefix \o ToString(nextStoreEntryId + 1)]

\* this._monacoEditorInstances[ id ] = editor
StoreEntry(id, h) == [monacoEditorInstances EXCEPT ![id] = h]

\* delete this._monacoEditorInstances[ id ]
DeleteEntry(id) == [monacoEditorInstances EXCEPT ![id] = NoElement]

\* get: throws for null and '', otherwise this._monacoEditorInstances[ id ],
\* which is the own entry, a member inherited from Object.prototype, or
\* undefined
get(id) ==
    IF id = Null \/ id = ""
        THEN [kind |-> "throw", handle |-> NoElement]
    ELSE IF hasOwnProperty(id)
        THEN [kind |-> "handle", handle |-> monacoEditorInstances[id]]
    ELSE IF id \in InheritedKeys
        THEN [kind |-> "inherited", handle |-> NoElement]
    ELSE [kind |-> "absent", handle |-> NoElement]

\* hasEditors: the scan sets the flag at the first own key
hasEditors == \E id \in DOMAIN monacoEditorInstances : hasOwnProperty(id)

\* (faulty variant) layout() is called on every widget ever created
resizeAllEveryWidget == [w \in Elements |-> IF editor[w].created THEN 1 ELSE 0]

\* resizeAll: how many times layout() is called on each widget, once for
\* every own key that holds it
resizeAll ==
    [w \in Elements |->
        Cardinality({id \in OwnKeys : monacoEditorInstances[id] = w})]

\* if ( !options.x ) is taken for undefined, null, false, 0 and ''
Truthy(v) == v \notin Falsy

\* (faulty variant) only a field that is not set is given its default
parseOptionsOnlyAbsent(optionsObjectLiteral) ==
    [f \in OptionFields |->
        IF optionsObjectLiteral[f] # Undefined THEN optionsObjectLiteral[f]
        ELSE OptionDefaults[f]]

\* parseOptions: every field whose value is not truthy is set to its default
parseOptions(optionsObjectLiteral) ==
    [f \in OptionFields |->
        IF Truthy(optionsObjectLiteral[f]) THEN optionsObjectLiteral[f]
        ELSE OptionDefaults[f]]

\* (faulty variant) the values are not compared
ValueAlwaysDiffers(current, koModelValue) == TRUE

\* the test of updateEditor that decides whether the widget is written
ValueDiffers(current, koModelValue) == current # koModelValue

\* (faulty variant) the presence check is left out: the id is resolved to the widget
\* made for the element that carries it, stored or not
updateEditorUnguarded(id, koModelValue) ==
    LET W == {e \in Elements : elementId[e] = id /\ editor[e].created}
    IN IF id # Null /\ id # "" /\ W # {}
         THEN LET w == CHOOSE e \in W : TRUE IN
              [editors |-> [editor EXCEPT ![w].value = koModelValue],
               fired |-> <<[kind |-> "listener", el |-> w]>>,
               sets |-> 1,
               positions |-> {[el |-> w, position |-> DocumentStart]}]
         ELSE [editors |-> editor, fired |-> <<>>, sets |-> 0, positions |-> {}]

\* (faulty variant) setPosition is not called
updateEditorKeepsPosition(id, koModelValue) ==
    IF id # Null /\ id # "" /\ hasOwnProperty(id)
           /\ editor[monacoEditorInstances[id]].value # koModelValue
        THEN LET w == monacoEditorInstances[id] IN
             [editors |-> [editor EXCEPT ![w].value = koModelValue],
              fired |-> <<[kind |-> "listener", el |-> w]>>,
              sets |-> 1,
              positions |-> {}]
        ELSE [editors |-> editor, fired |-> <<>>, sets |-> 0, positions |-> {}]

\* updateEditor: the widgets after the call, the content-change listeners
\* setValue fired, the number of setValue calls, and the setPosition calls
updateEditor(id, koModelValue) ==
    IF id # Null /\ id # "" /\ hasOwnProperty(id)
           /\ ValueDiffers(editor[monacoEditorInstances[id]].value, koModelValue)
        THEN LET w == monacoEditorInstances[id] IN
             [editors |-> [editor EXCEPT ![w].value = koModelValue],
              fired |-> <<[kind |-> "listener", el |-> w]>>,
              sets |-> 1,
              positions |-> {[el |-> w, position |-> DocumentStart]}]
        ELSE [editors |-> editor, fired |-> <<>>, sets |-> 0, positions |-> {}]

----------------------------------------------------------------------------
\* the collaborators

\* the elements of S in document order, the order knockout bound them in
RECURSIVE InOrder(_)
InOrder(S) ==
    IF S = {} THEN <<>>
    ELSE LET e == CHOOSE x \in S : \A y \in S : x <= y
         IN <<e>> \o InOrder(S \ {e})

\* knockout re-runs update for every element whose binding read property p
Notify(p) ==
    LET S == {e \in Elements : subscribed[e] /\ boundProp[e] = p}
        seq == InOrder(S)
    IN [i \in 1..Len(seq) |-> [kind |-> "update", el |-> seq[i]]]

\* no turn is running
Quiescent == callStack = <<>>

\* the frame of the outside event that started the turn
TurnFrame == <<[kind |-> "turn", el |-> NoElement]>>

\* the outside event's handler, and all it re-entered, has returned
Returned == Len(callStack) = 1 /\ Head(callStack).kind = "turn"

----------------------------------------------------------------------------
\* MonacoBindingHandlerHelper.init and MonacoEditorStore.create up to the
\* require call; knockout then makes the initial update pass

\* the value create reads from the accessor before the widget library loads
startingEditorValue(e) == koValue[boundProp[e]]

\* (faulty variant) create stores the element's entry at once, before the
\* widget library has loaded
ApplyBindingsStoresEarly(e) ==
    /\ Quiescent
    /\ ~applied[e]
    /\ inDocument[e]
    /\ meOptions[e].has
    /\ \A f \in Elements : f < e => (applied[f] \/ ~meOptions[f].has)
    /\ IF elementId[e] = ""
          THEN /\ elementId' = [elementId EXCEPT ![e] = getNextId.id]
               /\ nextStoreEntryId' = getNextId.counter
          ELSE UNCHANGED <<elementId, nextStoreEntryId>>
    /\ monacoEditorInstances' =
          [monacoEditorInstances EXCEPT ![elementId'[e]] = e]
    /\ requireQueue' = Append(requireQueue,
            [element |-> e, options |-> IF meOptions[e].given
                                          THEN meOptions[e].fields
                                          ELSE EmptyOptions,
             koModelPropAccessor |-> boundProp[e],
             startingEditorValue |-> koValue[boundProp[e]]])
    /\ applied' = [applied EXCEPT ![e] = TRUE]
    /\ subscribed' = [subscribed EXCEPT ![e] = TRUE]
    /\ callStack' = <<[kind |-> "update", el |-> e]>> \o <<[kind |-> "turn", el |-> NoElement]>>
    /\ UNCHANGED <<setValueCalls, setPositionCalls, observableWrites, result>>
    /\ UNCHANGED <<boundProp, meOptions, inDocument, koValue, editor,
                   disposeCallback>>

\* allBindingsAccessor.get( 'meOptions' ) || {}
OptionsOrEmpty(b) == IF b.given THEN b.fields ELSE EmptyOptions

ApplyBindings(e) ==
    /\ Quiescent
    /\ ~applied[e]
    /\ inDocument[e]
    /\ meOptions[e].has
    /\ \A f \in Elements : f < e => (applied[f] \/ ~meOptions[f].has)
    /\ IF elementId[e] = ""
          THEN /\ elementId' = [elementId EXCEPT ![e] = getNextId.id]
               /\ nextStoreEntryId' = getNextId.counter
          ELSE UNCHANGED <<elementId, nextStoreEntryId>>
    /\ requireQueue' = Append(requireQueue,
            [element |-> e, options |-> OptionsOrEmpty(meOptions[e]),
             koModelPropAccessor |-> boundProp[e],
             startingEditorValue |-> startingEditorValue(e)])
    /\ applied' = [applied EXCEPT ![e] = TRUE]
    /\ subscribed' = [subscribed EXCEPT ![e] = TRUE]
    /\ callStack' = <<[kind |-> "update", el |-> e]>> \o TurnFrame
    /\ UNCHANGED <<setValueCalls, setPositionCalls, observableWrites, result>>
    /\ UNCHANGED <<boundProp, meOptions, inDocument, koValue, editor, disposeCallback,
                   monacoEditorInstances>>

\* (faulty variant) init on an element whose declaration has no meOptions
\* binding calls create with {}
InitCreatesWithDefaults(e) ==
    /\ Quiescent
    /\ ~applied[e]
    /\ inDocument[e]
    /\ ~meOptions[e].has
    /\ IF elementId[e] = ""
          THEN /\ elementId' = [elementId EXCEPT ![e] = getNextId.id]
               /\ nextStoreEntryId' = getNextId.counter
          ELSE UNCHANGED <<elementId, nextStoreEntryId>>
    /\ requireQueue' = Append(requireQueue,
            [element |-> e, options |-> EmptyOptions,
             koModelPropAccessor |-> boundProp[e],
             startingEditorValue |-> startingEditorValue(e)])
    /\ applied' = [applied EXCEPT ![e] = TRUE]
    /\ subscribed' = [subscribed EXCEPT ![e] = TRUE]
    /\ result' = [NoResult EXCEPT !.op = "init", !.handle = e]
    /\ callStack' = <<[kind |-> "update", el |-> e]>> \o TurnFrame
    /\ UNCHANGED <<boundProp, meOptions, inDocument, koValue, editor,
                   disposeCallback, monacoEditorInstances, setValueCalls,
                   setPositionCalls, observableWrites>>

\* init on an element whose declaration has no meOptions binding throws
\* before create is called
InitThrows(e) ==
    /\ Quiescent
    /\ ~applied[e]
    /\ inDocument[e]
    /\ ~meOptions[e].has
    /\ result' = [NoResult EXCEPT !.op = "init", !.handle = e, !.kind = "throw"]
    /\ callStack' = TurnFrame
    /\ UNCHANGED <<elementId, boundProp, meOptions, inDocument, applied,
                   subscribed, koValue, requireQueue, editor, disposeCallback,
                   nextStoreEntryId, monacoEditorInstances, setValueCalls,
                   setPositionCalls, observableWrites>>

\* (faulty variant) the callback of an element that is no longer in the
\* document does nothing
LoadReadySkipsRemoved ==
    /\ callStack = <<>>
    /\ requireQueue # <<>>
    /\ LET c == Head(requireQueue) IN
        IF inDocument[c.element]
          THEN /\ editor' = [editor EXCEPT ![c.element] =
                      [created |-> TRUE, value |-> c.startingEditorValue,
                       disposed |-> FALSE, options |-> parseOptions(c.options),
                       koModelProp |-> c.koModelPropAccessor]]
               /\ disposeCallback' = [disposeCallback EXCEPT ![c.element] = TRUE]
               /\ monacoEditorInstances' =
                      [monacoEditorInstances EXCEPT ![elementId[c.element]] = c.element]
          ELSE UNCHANGED <<editor, disposeCallback, monacoEditorInstances>>
    /\ requireQueue' = Tail(requireQueue)
    /\ callStack' = <<[kind |-> "turn", el |-> NoElement]>>
    /\ UNCHANGED <<elementId, boundProp, meOptions, inDocument, applied,
                   subscribed, koValue, nextStoreEntryId, setValueCalls,
                   setPositionCalls, observableWrites, result>>

\* the callback create passes to require: the widget is made with the
\* options parsed and the value read earlier, the listener and the dispose callback are registered, and
\* the widget is stored under the element's id
LoadReady ==
    /\ Quiescent
    /\ requireQueue # <<>>
    /\ LET c == Head(requireQueue) IN
        /\ editor' = [editor EXCEPT ![c.element] =
                [created |-> TRUE, value |-> c.startingEditorValue,
                 disposed |-> FALSE, options |-> parseOptions(c.options),
                 koModelProp |-> c.koModelPropAccessor]]
        /\ disposeCallback' = [disposeCallback EXCEPT ![c.element] = TRUE]
        /\ monacoEditorInstances' = StoreEntry(elementId[c.element], c.element)
    /\ requireQueue' = Tail(requireQueue)
    /\ callStack' = TurnFrame
    /\ UNCHANGED <<elementId, boundProp, meOptions, inDocument, applied, subscribed,
                   koValue, nextStoreEntryId, setValueCalls, setPositionCalls, observableWrites,
                   result>>

\* MonacoBindingHandlerHelper.update, run by knockout
RunUpdate ==
    /\ callStack # <<>>
    /\ Head(callStack).kind = "update"
    /\ LET e == Head(callStack).el
           r == updateEditor(elementId[e], koValue[boundProp[e]])
       IN /\ editor' = r.editors
          /\ callStack' = r.fired \o Tail(callStack)
          /\ setValueCalls' = setValueCalls + r.sets
          /\ setPositionCalls' = setPositionCalls \cup r.positions
    /\ UNCHANGED <<elementId, boundProp, meOptions, inDocument, applied, subscribed,
                   koValue, requireQueue, disposeCallback, nextStoreEntryId,
                   monacoEditorInstances, observableWrites, result>>

\* (faulty variant) the listener reads the accessor instead of the widget
ListenerValueFromAccessor(e) ==
    [ok |-> TRUE, value |-> koValue[boundProp[e]]]

\* the value the content-change listener of element e's widget pushes:
\* ko.monacoEditors.get( element.id ).getValue()
ListenerValue(e) ==
    LET g == get(elementId[e])
    IN IF g.kind = "handle"
         THEN [ok |-> TRUE, value |-> editor[g.handle].value]
         ELSE [ok |-> FALSE, value |-> ""]

\* the onDidChangeModelContent listener registered by create
RunListener ==
    /\ callStack # <<>>
    /\ Head(callStack).kind = "listener"
    /\ LET e == Head(callStack).el
           p == editor[e].koModelProp
           v == ListenerValue(e)
       IN IF ~isWriteableObservable(p)
            THEN UNCHANGED <<koValue, observableWrites, result>>
                 /\ callStack' = Tail(callStack)
          ELSE IF ~v.ok
            THEN /\ result' = [NoResult EXCEPT !.op = "listener",
                                    !.id = elementId[e], !.kind = "throw"]
                 /\ callStack' = Tail(callStack)
                 /\ UNCHANGED <<koValue, observableWrites>>
          ELSE /\ koValue' = [koValue EXCEPT ![p] = v.value]
               /\ observableWrites' = observableWrites + 1
               /\ callStack' = (IF koValue[p] # v.value THEN Notify(p) ELSE <<>>)
                                   \o Tail(callStack)
               /\ UNCHANGED result
    /\ UNCHANGED <<elementId, boundProp, meOptions, inDocument, applied, subscribed,
                   requireQueue, editor, disposeCallback, nextStoreEntryId,
                   monacoEditorInstances, setValueCalls, setPositionCalls>>

----------------------------------------------------------------------------
\* outside events

\* the user types in the widget of element e: the widget's content changes
\* and its content-change listener fires
UserEdit(e, t) ==
    /\ Quiescent
    /\ editor[e].created /\ ~editor[e].disposed /\ inDocument[e]
    /\ t # editor[e].value
    /\ editor' = [editor EXCEPT ![e].value = t]
    /\ callStack' = <<[kind |-> "listener", el |-> e]>> \o TurnFrame
    /\ result' = [NoResult EXCEPT !.op = "userEdit", !.handle = e,
                      !.value = koValue[boundProp[e]]]
    /\ UNCHANGED <<setValueCalls, setPositionCalls, observableWrites>>
    /\ UNCHANGED <<elementId, boundProp, meOptions, inDocument, applied, subscribed,
                   koValue, requireQueue, disposeCallback, nextStoreEntryId,
                   monacoEditorInstances>>

\* the view model gives property p, which some binding names, a new value:
\* knockout notifies the bindings that read it (a write of the value it holds
\* notifies nobody)
WriteObservable(p, t) ==
    /\ Quiescent
    /\ \E e \in Elements : boundProp[e] = p /\ meOptions[e].has
    /\ t # koValue[p]
    /\ koValue' = [koValue EXCEPT ![p] = t]
    /\ callStack' = Notify(p) \o TurnFrame
    /\ UNCHANGED <<setValueCalls, setPositionCalls, observableWrites, result>>
    /\ UNCHANGED <<elementId, boundProp, meOptions, inDocument, applied, subscribed,
                   requireQueue, editor, disposeCallback, nextStoreEntryId,
                   monacoEditorInstances>>

\* (faulty variant) the widget is released and its entry is left in the map
DisposeCallbackKeepsEntry(e) ==
    LET id == elementId[e] IN
    IF hasOwnProperty(id)
      THEN [editors |-> [editor EXCEPT ![monacoEditorInstances[id]] = DisposedEditor],
            instances |-> monacoEditorInstances,
            threw |-> FALSE]
      ELSE [editors |-> editor, instances |-> monacoEditorInstances,
            threw |-> TRUE]

\* the dispose callback create registers with ko.utils.domNodeDisposal:
\* this._monacoEditorInstances[ element.id ].dispose() and the delete, which
\* is not reached when the lookup gives no widget
DisposeCallback(e) ==
    LET id == elementId[e] IN
    IF hasOwnProperty(id)
      THEN [editors |-> [editor EXCEPT ![monacoEditorInstances[id]] = DisposedEditor],
            instances |-> DeleteEntry(id),
            threw |-> FALSE]
      ELSE [editors |-> editor, instances |-> monacoEditorInstances,
            threw |-> TRUE]

\* the element is removed from the document: knockout stops re-running its
\* binding and runs the dispose callbacks registered for the node so far
RemoveElement(e) ==
    /\ Quiescent
    /\ inDocument[e]
    /\ applied[e]
    /\ inDocument' = [inDocument EXCEPT ![e] = FALSE]
    /\ subscribed' = [subscribed EXCEPT ![e] = FALSE]
    /\ disposeCallback' = [disposeCallback EXCEPT ![e] = FALSE]
    /\ IF disposeCallback[e]
          THEN LET d == DisposeCallback(e) IN
               /\ editor' = d.editors
               /\ monacoEditorInstances' = d.instances
               /\ result' = [NoResult EXCEPT !.op = "removeElement",
                                 !.id = elementId[e], !.handle = e,
                                 !.kind = IF d.threw THEN "throw" ELSE "void"]
          ELSE /\ UNCHANGED <<editor, monacoEditorInstances>>
               /\ result' = [NoResult EXCEPT !.op = "removeElement",
                                 !.id = elementId[e], !.handle = e]
    /\ callStack' = TurnFrame
    /\ UNCHANGED <<elementId, boundProp, meOptions, applied, koValue, requireQueue,
                   nextStoreEntryId, setValueCalls, setPositionCalls, observableWrites>>

----------------------------------------------------------------------------
\* calls of the store's interface, ko.monacoEditors

\* the ids callers pass: null, '', an id no element carries, an inherited
\* member's name, and the id of every element, whatever has become of it
ApiIds == {Null, "", "nobody"} \cup InheritedKeys
              \cup {elementId[e] : e \in Elements}

UpdateEditorCall(id, v) ==
    /\ Quiescent
    /\ LET r == updateEditor(id, v) IN
        /\ editor' = r.editors
        /\ callStack' = r.fired \o TurnFrame
        /\ setValueCalls' = r.sets
        /\ setPositionCalls' = r.positions
        /\ result' = [NoResult EXCEPT !.op = "updateEditor", !.id = id,
                          !.value = v, !.changed = (r.sets > 0)]
    /\ UNCHANGED <<elementId, boundProp, meOptions, inDocument, applied, subscribed,
                   koValue, requireQueue, disposeCallback, nextStoreEntryId,
                   monacoEditorInstances, observableWrites>>

\* the caller makes the call it has just made once more, with the same
\* arguments
UpdateEditorAgain ==
    /\ Returned
    /\ result.op = "updateEditor"
    /\ hasOwnProperty(result.id)
    /\ LET r == updateEditor(result.id, result.value) IN
        /\ editor' = r.editors
        /\ callStack' = r.fired \o callStack
        /\ setValueCalls' = setValueCalls + r.sets
        /\ setPositionCalls' = setPositionCalls \cup r.positions
        /\ result' = [result EXCEPT !.op = "updateEditorAgain",
                                    !.changed = (r.sets > 0)]
    /\ UNCHANGED <<elementId, boundProp, meOptions, inDocument, applied, subscribed,
                   koValue, requireQueue, disposeCallback, nextStoreEntryId,
                   monacoEditorInstances, observableWrites>>

GetCall(id) ==
    /\ Quiescent
    /\ result' = [NoResult EXCEPT !.op = "get", !.id = id,
                      !.kind = get(id).kind, !.handle = get(id).handle]
    /\ callStack' = TurnFrame
    /\ UNCHANGED <<elementId, boundProp, meOptions, inDocument, applied, subscribed,
                   koValue, requireQueue, editor, disposeCallback,
                   nextStoreEntryId, monacoEditorInstances, setValueCalls, setPositionCalls,
                   observableWrites>>

HasEditorsCall ==
    /\ Quiescent
    /\ result' = [NoResult EXCEPT !.op = "hasEditors",
                      !.kind = IF hasEditors THEN "true" ELSE "false"]
    /\ callStack' = TurnFrame
    /\ UNCHANGED <<elementId, boundProp, meOptions, inDocument, applied, subscribed,
                   koValue, requireQueue, editor, disposeCallback,
                   nextStoreEntryId, monacoEditorInstances, setValueCalls, setPositionCalls,
                   observableWrites>>

ResizeAllCall ==
    /\ Quiescent
    /\ result' = [NoResult EXCEPT !.op = "resizeAll", !.laidOut = resizeAll]
    /\ callStack' = TurnFrame
    /\ UNCHANGED <<elementId, boundProp, meOptions, inDocument, applied, subscribed,
                   koValue, requireQueue, editor, disposeCallback,
                   nextStoreEntryId, monacoEditorInstances, setValueCalls, setPositionCalls,
                   observableWrites>>

\* the turn is over: what it left for its caller is gone
EndTurn ==
    /\ Returned
    /\ callStack' = <<>>
    /\ setValueCalls' = 0
    /\ setPositionCalls' = {}
    /\ observableWrites' = 0
    /\ result' = NoResult
    /\ UNCHANGED <<elementId, boundProp, meOptions, inDocument, applied, subscribed,
                   koValue, requireQueue, editor, disposeCallback,
                   nextStoreEntryId, monacoEditorInstances>>

----------------------------------------------------------------------------
Next ==
    \/ \E e \in Elements : ApplyBindings(e)
    \/ \E e \in Elements : InitThrows(e)
    \/ LoadReady
    \/ RunUpdate
    \/ RunListener
    \/ \E e \in Elements, t \in Texts : UserEdit(e, t)
    \/ \E p \in Props, t \in Texts : WriteObservable(p, t)
    \/ \E e \in Elements : RemoveElement(e)
    \/ \E id \in ApiIds, v \in Texts : UpdateEditorCall(id, v)
    \/ UpdateEditorAgain
    \/ \E id \in ApiIds : GetCall(id)
    \/ HasEditorsCall
    \/ ResizeAllCall
    \/ EndTurn

Spec == Init /\ [][Next]_vars

----------------------------------------------------------------------------
\* the lifecycle of a bound element

\* the element's widget exists, is not released, and is the handle stored
\* under the element's id
Live(e) ==
    /\ editor[e].created
    /\ ~editor[e].disposed
    /\ elementId[e] \in DOMAIN monacoEditorInstances
    /\ monacoEditorInstances[elementId[e]] = e

----------------------------------------------------------------------------
\* C1: in every quiescent state, the widget of every Live element bound to a
\* writable observable holds the observable's current value.
C1_WidgetEqualsObservable ==
    Quiescent =>
        \A e \in Elements :
            (Live(e) /\ isWriteableObservable(boundProp[e]))
                => editor[e].value = koValue[boundProp[e]]

\* C2: every run of the content-change listener of a Live element's widget
\* leaves a writable bound observable holding the widget's text, and writes
\* nothing when the bound value is not writable; and when the turn of a
\* user's edit has returned, the writable observable holds the widget's
\* current text, and a bound value that is not writable is what it was before
\* the edit.
C2_ListenerPushesWidgetText ==
    /\ [][(callStack # <<>> /\ Head(callStack).kind = "listener"
              /\ Live(Head(callStack).el)) =>
            LET e == Head(callStack).el
                p == boundProp[e]
            IN IF isWriteableObservable(p)
                 THEN koValue'[p] = editor[e].value
                      /\ \A q \in Props : q # p => koValue'[q] = koValue[q]
                 ELSE koValue' = koValue
                      /\ observableWrites' = observableWrites]_vars
    /\ []((Returned /\ result.op = "userEdit" /\ Live(result.handle)) =>
            LET e == result.handle
                p == boundProp[e]
            IN IF isWriteableObservable(p)
                 THEN koValue[p] = editor[e].value
                 ELSE koValue[p] = result.value /\ observableWrites = 0)

\* C2 happens: a user's edit of a Live element's widget has changed the
\* writable observable
C2_Witness ==
    /\ Returned /\ result.op = "userEdit" /\ Live(result.handle)
    /\ isWriteableObservable(boundProp[result.handle])
    /\ koValue[boundProp[result.handle]] # result.value
    /\ observableWrites = 1

\* the store's map holds a handle under id
Registered(id) ==
    id \in DOMAIN monacoEditorInstances /\ monacoEditorInstances[id] # NoElement

\* C3: updateEditor(id, v) with id in the store: the call that finds another
\* text sets the text to v and calls setPosition with line 0, column 0, the
\* call that finds v touches no widget and no cursor; and when the call has
\* returned the widget's text is v, with the cursor put at line 0, column 0
\* exactly if the text was set.
C3_UpdateEditorRoundTrip ==
    /\ [][(Quiescent /\ result'.op = "updateEditor" /\ Registered(result'.id)) =>
            LET w == monacoEditorInstances[result'.id]
                v == result'.value
            IN IF editor[w].value = v
                 THEN /\ editor' = editor
                      /\ setPositionCalls' = {}
                      /\ ~result'.changed
                 ELSE /\ editor'[w].value = v
                      /\ setPositionCalls' = {[el |-> w, position |-> DocumentStart]}
                      /\ result'.changed]_vars
    /\ []((Returned /\ result.op = "updateEditor" /\ Registered(result.id)) =>
            LET w == monacoEditorInstances[result.id]
            IN /\ editor[w].value = result.value
               /\ result.changed <=>
                      [el |-> w, position |-> DocumentStart] \in setPositionCalls
               /\ \A c \in setPositionCalls :
                      c.el = w => c.position = [lineNumber |-> 0, column |-> 0])

\* C3 happens: updateEditor has returned after setting the text of a widget
\* that held another text
C3_Witness ==
    /\ Returned /\ result.op = "updateEditor" /\ Registered(result.id)
    /\ result.changed
    /\ editor[monacoEditorInstances[result.id]].value = result.value
    /\ \E c \in setPositionCalls : c.el = monacoEditorInstances[result.id]

\* C4: in every turn each stored widget is set at most once and the
\* listeners write an observable at most once more than that; every handler
\* that runs either sets a widget, writes an observable or leaves the stack
\* shorter; and a turn that has not ended can always take its next step.
C4_NoFeedbackLoop ==
    /\ [](/\ setValueCalls <= Cardinality({id \in DOMAIN monacoEditorInstances : Registered(id)})
          /\ observableWrites <= setValueCalls + 1)
    /\ [][(callStack # <<>> /\ ~Returned) =>
            \/ Len(callStack') < Len(callStack)
            \/ setValueCalls' > setValueCalls
            \/ observableWrites' > observableWrites]_vars
    /\ [](callStack # <<>> => ENABLED (RunUpdate \/ RunListener \/ EndTurn))

\* C4 happens: a user's edit went through the listener into the observable
\* and from there, by update, into another element's widget, whose listener
\* wrote the observable again, and the turn has returned
C4_Witness ==
    /\ Returned /\ result.op = "userEdit"
    /\ setValueCalls = 1 /\ observableWrites = 2

\* C5: updateEditor(id, v) with id null, '' or not in the store does not
\* throw and leaves the store's map, the id counter, every widget and every
\* observable as they were; no listener fires.
C5_UpdateEditorUnknownId ==
    [][(Quiescent /\ result'.op = "updateEditor" /\ ~Registered(result'.id)) =>
        /\ result'.kind # "throw"
        /\ callStack' = TurnFrame
        /\ UNCHANGED <<monacoEditorInstances, nextStoreEntryId, editor,
                       koValue>>]_vars

\* C5 happens: updateEditor was called with the id of an element whose
\* create is in flight, and with the stale id of a removed element whose
\* widget was released
C5_Witness ==
    /\ Returned /\ result.op = "updateEditor" /\ ~Registered(result.id)
    /\ \E e \in Elements :
          /\ elementId[e] = result.id
          /\ editor[e].disposed
    /\ \E e \in Elements :
          /\ applied[e] /\ ~editor[e].created

\* C6: a second updateEditor(id, v) right after the first, id in the store,
\* sets no text and no cursor and fires no listener: the state after the two
\* calls is the state after the first.
C6_UpdateEditorIdempotent ==
    /\ [][result'.op = "updateEditorAgain" /\ result.op = "updateEditor" =>
            /\ ~result'.changed
            /\ UNCHANGED <<editor, koValue, monacoEditorInstances,
                           nextStoreEntryId, callStack, setValueCalls, setPositionCalls,
                           observableWrites>>]_vars
    /\ [](result.op = "updateEditorAgain" => ~result.changed)

\* C6 happens: the first call set the text, the second call was made
C6_Witness ==
    /\ result.op = "updateEditorAgain"
    /\ setValueCalls >= 1
    /\ editor[monacoEditorInstances[result.id]].value = result.value

\* C7: get(id) throws for null and for '', and for every other id returns the
\* handle stored under the id, or an absent result when none is stored.
C7_GetContract ==
    (Returned /\ result.op = "get") =>
        IF result.id = Null \/ result.id = ""
          THEN result.kind = "throw"
        ELSE IF Registered(result.id)
          THEN result.kind = "handle"
               /\ result.handle = monacoEditorInstances[result.id]
        ELSE result.kind = "absent"

\* C8: hasEditors() is true exactly when some create has completed whose
\* widget has not been disposed.
C8_HasEditorsIffUndisposed ==
    (Returned /\ result.op = "hasEditors") =>
        (result.kind = "true"
            <=> \E e \in Elements : editor[e].created /\ ~editor[e].disposed)

\* hasEditors() is true exactly when the store's map has an entry
HasEditorsCountsEntries ==
    (Returned /\ result.op = "hasEditors") =>
        (result.kind = "true"
            <=> Cardinality({id \in DOMAIN monacoEditorInstances : Registered(id)}) > 0)

\* C9: the ids of the elements create was called for are pairwise distinct.
C9_IdsPairwiseDistinct ==
    \A e1, e2 \in Elements :
        (e1 # e2 /\ applied[e1] /\ applied[e2]) => elementId[e1] # elementId[e2]

\* C10: the removal of a Live element from the document disposes its widget
\* and deletes its entry, without an error: get of its id then gives an
\* absent result, hasEditors() tells whether another entry is left, and the
\* entries and widgets of the other elements are as before.
C10_RemovalReleasesLiveEditor ==
    [][\A e \in Elements :
        (Quiescent /\ inDocument[e] /\ ~inDocument'[e] /\ Live(e)) =>
            /\ editor'[e].disposed
            /\ result'.kind # "throw"
            /\ ~Registered(elementId[e])'
            /\ get(elementId[e])'.kind = "absent"
            /\ hasEditors' <=> (\E k \in DOMAIN monacoEditorInstances :
                                    k # elementId[e] /\ Registered(k))
            /\ \A k \in DOMAIN monacoEditorInstances :
                  k # elementId[e] => monacoEditorInstances'[k] = monacoEditorInstances[k]
            /\ \A f \in Elements : f # e => editor'[f] = editor[f]]_vars

\* C10 happens: a Live element was removed while another element is Live
C10_Witness ==
    /\ Returned /\ result.op = "removeElement" /\ result.kind = "void"
    /\ editor[result.handle].disposed
    /\ ~Registered(result.id)
    /\ \E f \in Elements : f # result.handle /\ Live(f)

----------------------------------------------------------------------------
\* the ids getNextId can still make
IdsToCome ==
    {editorDomElementIdPrefix \o ToString(n) : n \in (nextStoreEntryId + 1)..NumElements}

\* no two elements carry the same id, and no element carries an id getNextId
\* can still make
IdsNeverCollide ==
    /\ \A e1, e2 \in Elements :
          (e1 # e2 /\ elementId[e1] # "") => elementId[e1] # elementId[e2]
    /\ \A e \in Elements : elementId[e] \notin IdsToCome

\* where a bound element is in its life: init has not run; create is in
\* flight; its widget is the handle stored under its id; its widget is
\* released; or its widget exists, is not released and is not the handle
\* stored under its id
Phase(e) ==
    IF ~applied[e] THEN "Unbound"
    ELSE IF ~editor[e].created THEN "Initializing"
    ELSE IF editor[e].disposed THEN "Disposed"
    ELSE IF Live(e) THEN "Live"
    ELSE "Astray"

\* the steps of the lifecycle
LifecycleSteps ==
    {<<"Unbound", "Initializing">>, <<"Initializing", "Live">>,
     <<"Live", "Disposed">>}

\* C11: every bound element moves through Unbound, Initializing, Live,
\* Disposed one step at a time and never back, is never anywhere else, and
\* once it is Disposed the store holds no handle under its id, then or later.
C11_LifecycleForward ==
    /\ [][\A e \in Elements :
            Phase(e)' = Phase(e) \/ <<Phase(e), Phase(e)'>> \in LifecycleSteps]_vars
    /\ [](\A e \in Elements :
            Phase(e) = "Disposed" => ~Registered(elementId[e]))

\* the lifecycle as it is when ids never collide
LifecycleForwardDistinctIds ==
    /\ [][IdsNeverCollide =>
            \A e \in Elements :
                Phase(e)' = Phase(e) \/ <<Phase(e), Phase(e)'>> \in LifecycleSteps]_vars
    /\ [](IdsNeverCollide =>
            \A e \in Elements :
                Phase(e) = "Disposed" => ~Registered(elementId[e]))

----------------------------------------------------------------------------
\* C12: the load-ready callback of an element removed while its create was
\* in flight still stores the element's widget under its id, and from then on
\* the removal hook of the element can run, releasing the widget and deleting
\* the entry.
C12_RemovedInFlightIsReleased ==
    /\ [][(Quiescent /\ requireQueue # <<>>
              /\ ~inDocument[Head(requireQueue).element]
              /\ requireQueue' = Tail(requireQueue)) =>
            LET e == Head(requireQueue).element
            IN /\ editor'[e].created /\ ~editor'[e].disposed
               /\ monacoEditorInstances'[elementId[e]] = e]_vars
    /\ [](\A e \in Elements :
            (Quiescent /\ ~inDocument[e] /\ Live(e)) => ENABLED RemoveElement(e))

\* the first half of C12 alone: the callback of a removed element stores the
\* widget
RemovedInFlightIsRegistered ==
    [][(Quiescent /\ requireQueue # <<>>
              /\ ~inDocument[Head(requireQueue).element]
              /\ requireQueue' = Tail(requireQueue)) =>
            LET e == Head(requireQueue).element
            IN /\ editor'[e].created /\ ~editor'[e].disposed
               /\ monacoEditorInstances'[elementId[e]] = e]_vars

----------------------------------------------------------------------------
\* what the load-ready callback at the head of the queue must do for its own
\* element and leave alone for all others
CompletionKeepsToItself ==
    LET c == Head(requireQueue)
        e == c.element
    IN /\ editor'[e] = [created |-> TRUE,
                        value |-> c.startingEditorValue,
                        disposed |-> FALSE,
                        options |-> parseOptions(OptionsOrEmpty(meOptions[e])),
                        koModelProp |-> boundProp[e]]
       /\ monacoEditorInstances'[elementId[e]] = e
       /\ monacoEditorInstances[elementId[e]] = NoElement
       /\ \A k \in DOMAIN monacoEditorInstances :
             k # elementId[e] => monacoEditorInstances'[k] = monacoEditorInstances[k]
       /\ \A f \in Elements : f # e => editor'[f] = editor[f]
       /\ UNCHANGED <<koValue, subscribed, boundProp, elementId>>

\* C13: whatever creates are in flight, every load-ready callback stores the
\* widget made for its own element, with the text and the options of its own
\* create, under its own element's id, where no handle was stored, and leaves
\* the entries, widgets and wiring of all other elements as they were.
C13_CreatesDoNotInterfere ==
    [][(Quiescent /\ requireQueue # <<>> /\ requireQueue' = Tail(requireQueue))
          => CompletionKeepsToItself]_vars

\* the same when ids never collide
CreatesDoNotInterfereDistinctIds ==
    [][(Quiescent /\ requireQueue # <<>> /\ requireQueue' = Tail(requireQueue)
            /\ IdsNeverCollide)
          => CompletionKeepsToItself]_vars

\* two creates were in flight at once and both have completed, each element
\* Live with its own options
TwoCreatesCompleted ==
    /\ Returned
    /\ \E e1, e2 \in Elements :
          /\ e1 # e2 /\ Live(e1) /\ Live(e2)
          /\ editor[e1].options # editor[e2].options
          /\ requireQueue = <<>>

----------------------------------------------------------------------------
\* C14: init on an element declared without a meOptions binding throws and
\* calls no create: the store's map, the id counter, the element's id and
\* the pending load requests are as before, and the element never gets a
\* widget; init on an element declared with the binding makes exactly one
\* create call, with that element, its option literal ({} for a literal that
\* is undefined or null) and its value accessor.
C14_InitNeedsOptions ==
    /\ [][\A e \in Elements :
            (Quiescent /\ ~meOptions[e].has /\ result'.op = "init"
                 /\ result'.handle = e) =>
                /\ result'.kind = "throw"
                /\ UNCHANGED <<monacoEditorInstances, nextStoreEntryId,
                               elementId, requireQueue, editor, applied,
                               subscribed, koValue>>]_vars
    /\ [](\A e \in Elements :
            ~meOptions[e].has =>
                /\ ~applied[e] /\ ~editor[e].created
                /\ \A i \in 1..Len(requireQueue) : requireQueue[i].element # e)
    /\ [][\A e \in Elements :
            (~applied[e] /\ applied'[e]) =>
                /\ meOptions[e].has
                /\ requireQueue' = Append(requireQueue,
                      [element |-> e,
                       options |-> IF meOptions[e].given THEN meOptions[e].fields
                                   ELSE EmptyOptions,
                       koModelPropAccessor |-> boundProp[e],
                       startingEditorValue |-> koValue[boundProp[e]]])]_vars
    /\ [][\A e \in Elements :
            (applied[e] = applied'[e]) =>
                Cardinality({i \in 1..Len(requireQueue') : requireQueue'[i].element = e})
                  <= Cardinality({i \in 1..Len(requireQueue) : requireQueue[i].element = e})]_vars

\* C14 happens: init has thrown for an element without the binding, after
\* init of another element called create, whose load request is pending
C14_Witness ==
    /\ Returned /\ result.op = "init" /\ result.kind = "throw"
    /\ ~meOptions[result.handle].has
    /\ elementId[result.handle] = ""
    /\ nextStoreEntryId >= 1
    /\ \E i \in 1..Len(requireQueue) : requireQueue[i].element # result.handle

----------------------------------------------------------------------------
\* C15: a content-change listener runs, and writes the observable, only for
\* an element whose widget has been created; and the create call, up to the
\* require call, changes the element's id and the id counter and neither the
\* store's map nor an observable nor a widget.
C15_ListenerOnlyAfterCreation ==
    /\ [](\A i \in 1..Len(callStack) :
            callStack[i].kind = "listener" =>
                /\ applied[callStack[i].el]
                /\ editor[callStack[i].el].created)
    /\ [][observableWrites' > observableWrites =>
            /\ callStack # <<>> /\ Head(callStack).kind = "listener"
            /\ Phase(Head(callStack).el) \notin {"Unbound", "Initializing"}]_vars
    /\ [][\A e \in Elements :
            (~applied[e] /\ applied'[e]) =>
                /\ UNCHANGED <<monacoEditorInstances, koValue, editor,
                               disposeCallback, observableWrites>>
                /\ \A f \in Elements : f # e => elementId'[f] = elementId[f]
                /\ IF elementId[e] = ""
                     THEN /\ nextStoreEntryId' = nextStoreEntryId + 1
                          /\ elementId'[e] # ""
                     ELSE UNCHANGED <<elementId, nextStoreEntryId>>]_vars

\* C15 happens: the listener of one element's widget has written the
\* observable while the create of another element bound to the same
\* observable is in flight
C15_Witness ==
    /\ Returned /\ observableWrites >= 1
    /\ \E e, f \in Elements :
          /\ e # f
          /\ result.op = "userEdit" /\ result.handle = e
          /\ Phase(f) = "Initializing"
          /\ boundProp[f] = boundProp[e]
          /\ nextStoreEntryId >= 1

----------------------------------------------------------------------------
\* the page and the user at work, with no caller of the store's interface
PageNext ==
    \/ \E e \in Elements : ApplyBindings(e)
    \/ \E e \in Elements : InitThrows(e)
    \/ LoadReady
    \/ RunUpdate
    \/ RunListener
    \/ \E e \in Elements, t \in Texts : UserEdit(e, t)
    \/ \E p \in Props, t \in Texts : WriteObservable(p, t)
    \/ \E e \in Elements : RemoveElement(e)
    \/ EndTurn

\* the program under the scheduling JavaScript gives it: a handler that has
\* been entered runs to its end, and a load-ready callback that is pending
\* is fired, between two turns, however many other events are taken
FairSpec ==
    /\ Init /\ [][PageNext]_vars
    /\ WF_vars(RunUpdate) /\ WF_vars(RunListener) /\ WF_vars(EndTurn)
    /\ SF_vars(LoadReady)

\* C16: when every pending load-ready callback is eventually fired, every
\* element whose create is in flight becomes Live; and as long as its
\* callback has not fired the element stays Initializing, with no widget and
\* no entry of its own: only the firing of its callback takes it out of
\* Initializing.
C16_CreateCompletes ==
    /\ \A e \in Elements : (Phase(e) = "Initializing") ~> Live(e)
    /\ [][\A e \in Elements :
            (Phase(e) = "Initializing" /\ Phase(e)' # "Initializing") =>
                /\ callStack = <<>>
                /\ requireQueue # <<>> /\ Head(requireQueue).element = e
                /\ requireQueue' = Tail(requireQueue)]_vars
    /\ [](\A e \in Elements :
            Phase(e) = "Initializing" =>
                /\ \E i \in 1..Len(requireQueue) : requireQueue[i].element = e
                /\ \A k \in DOMAIN monacoEditorInstances : monacoEditorInstances[k] # e)

\* C16 happens: an element removed while its create was in flight has become
\* Live all the same, while the create of another element is still in flight
C16_Witness ==
    \E e, f \in Elements :
        /\ Live(e) /\ ~inDocument[e]
        /\ Phase(f) = "Initializing"

----------------------------------------------------------------------------
\* parseOptions over the option literals a page can give: one element is
\* declared with a meOptions binding, whose value is any option literal or
\* none, and is bound, created and completed
OptionsInit ==
    /\ elementId = [e \in Elements |-> ""]
    /\ boundProp = [e \in Elements |-> "mainEditorText"]
    /\ \E b \in {NoLiteral} \cup {Literal(o) : o \in OptionLiterals} :
          meOptions = [e \in Elements |-> IF e = 1 THEN b ELSE NoBinding]
    /\ inDocument = [e \in Elements |-> TRUE]
    /\ applied = [e \in Elements |-> FALSE]
    /\ subscribed = [e \in Elements |-> FALSE]
    /\ koValue \in [Props -> Texts]
    /\ koValue["readOnlyText"] = "hello"
    /\ requireQueue = <<>>
    /\ editor = [e \in Elements |-> NoEditor]
    /\ disposeCallback = [e \in Elements |-> FALSE]
    /\ nextStoreEntryId = 0
    /\ monacoEditorInstances = [k \in StoreKeys |-> NoElement]
    /\ callStack = <<>>
    /\ setValueCalls = 0
    /\ setPositionCalls = {}
    /\ observableWrites = 0
    /\ result = NoResult

OptionsNext ==
    \/ \E e \in Elements : ApplyBindings(e)
    \/ \E e \in Elements : InitThrows(e)
    \/ LoadReady
    \/ RunUpdate
    \/ EndTurn

OptionsSpec == OptionsInit /\ [][OptionsNext]_vars

----------------------------------------------------------------------------
\* C18: resizeAll() calls layout() once on every widget the store holds and
\* on no other widget, none of them disposed; it does not throw, whatever the
\* store holds; and it leaves the store's map, the id counter, the widgets
\* and the observables as they were.
C18_ResizeAllLaysOutStored ==
    [][(Quiescent /\ result'.op = "resizeAll") =>
        /\ \A w \in Elements :
              /\ result'.laidOut[w] =
                    (IF \E k \in DOMAIN monacoEditorInstances :
                            monacoEditorInstances[k] = w
                       THEN 1 ELSE 0)
              /\ result'.laidOut[w] > 0 =>
                    editor[w].created /\ ~editor[w].disposed
        /\ result'.kind # "throw"
        /\ callStack' = <<[kind |-> "turn", el |-> NoElement]>>
        /\ UNCHANGED <<monacoEditorInstances, nextStoreEntryId, editor,
                       koValue, elementId, requireQueue>>]_vars

\* C18 happens: resizeAll() has laid out the one widget the store holds,
\* while another widget is disposed and the create of none is in flight
C18_Witness ==
    /\ Returned /\ result.op = "resizeAll"
    /\ \E w, d \in Elements :
          /\ result.laidOut[w] = 1 /\ Live(w)
          /\ editor[d].disposed /\ result.laidOut[d] = 0

----------------------------------------------------------------------------
\* what the listener about to run finds under its element's id: the widget
\* whose content changed, and so that widget's text
ListenerFindsOwnWidget ==
    (callStack # <<>> /\ Head(callStack).kind = "listener") =>
        LET e == Head(callStack).el
        IN /\ get(elementId[e]).kind = "handle"
           /\ get(elementId[e]).handle = e
           /\ ListenerValue(e) = [ok |-> TRUE, value |-> editor[e].value]

\* C19: whenever a content-change listener runs, the store holds, under the
\* id of the listener's element, the widget whose content changed: the lookup
\* does not fail and the text pushed is that widget's.
C19_ListenerFindsItsEntry ==
    /\ ListenerFindsOwnWidget
    /\ result.op = "listener" => result.kind # "throw"

\* the same when ids never collide
ListenerFindsItsEntryDistinctIds ==
    IdsNeverCollide =>
        /\ ListenerFindsOwnWidget
        /\ result.op = "listener" => result.kind # "throw"

----------------------------------------------------------------------------
\* every widget created is the handle stored under its element's id, or is
\* disposed
NoWidgetLeaked ==
    \A e \in Elements : editor[e].created => (Live(e) \/ editor[e].disposed)

\* a load-ready callback stores its handle where none is stored
StoreOverwritesNothing ==
    (Quiescent /\ requireQueue # <<>> /\ requireQueue' = Tail(requireQueue)) =>
        monacoEditorInstances[elementId[Head(requireQueue).element]] = NoElement

\* the dispose callback of a removed element finds the element's own widget
\* under its id, not yet disposed, and does not fail
DisposeFindsOwnWidget ==
    \A e \in Elements :
        (Quiescent /\ inDocument[e] /\ ~inDocument'[e] /\ disposeCallback[e]) =>
            /\ monacoEditorInstances[elementId[e]] = e
            /\ ~editor[e].disposed
            /\ editor'[e].disposed
            /\ result'.kind # "throw"
            /\ \A f \in Elements : f # e => editor'[f] = editor[f]

\* C20: no widget is leaked and none is released twice: every widget created
\* is the handle stored under its element's id or is disposed; a handle is
\* never stored over another; and the dispose callback, when it runs, finds
\* its own undisposed widget under its id.
C20_NoLeakNoDoubleRelease ==
    /\ []NoWidgetLeaked
    /\ [][StoreOverwritesNothing]_vars
    /\ [][DisposeFindsOwnWidget]_vars

\* the same when ids never collide
NoLeakNoDoubleReleaseDistinctIds ==
    /\ [](IdsNeverCollide => NoWidgetLeaked)
    /\ [][IdsNeverCollide => StoreOverwritesNothing]_vars
    /\ [][IdsNeverCollide => DisposeFindsOwnWidget]_vars

====
